---- MODULE Spec2Model ----
(***************************************************************************)
(* The admin configuration editor of src/main.py: the configuration        *)
(* record (BotHandlers.data), its SQLite store (Config.save_data /         *)
(* Config.load_data), and the /admin conversation (admin_conv_handler)     *)
(* with the handlers main() registers on the application.                  *)
(*                                                                         *)
(* A callback data, which the code takes apart, is kept as the sequence of  *)
(* its parts between underscores: 'edit_channel_2' is                      *)
(* <<"edit","channel","2">>, what its split('_') gives.                    *)
(* Python's 0-based list images[i] is the TLA+ sequence element images[i+1].*)
(***************************************************************************)
EXTENDS Integers, Sequences, FiniteSets, TLC

VARIABLES
    data,           \* BotHandlers.data, the in-memory configuration record
    db,             \* the rows of bot_data.db: channels, images, texts
    conversations,  \* admin_conv_handler's conversations: (chat, user) -> state
    user_data,      \* context.user_data of every user
    edits,          \* number of edits of the record handled so far
    handled,        \* the latest update handled: <<user, callback run>>
    pc,             \* where the process is: "main", "exited", "crashed", "polling"
    env,            \* whether the environment sets BOT_TOKEN and ADMIN_CHAT_ID
    load            \* a load_data under way next to the writer (Idle when none)

vars == <<data, db, conversations, user_data, edits, handled, pc, env, load>>

----------------------------------------------------------------------------
(* Bounds of the model *)

\* edits of the record explored in one behaviour
MaxEdits == 1

\* commits of another connection explored between the SELECTs of one
\* load_data
MaxSavesPerLoad == 1

----------------------------------------------------------------------------
(* Conversation states, main.py 170-182, and ConversationHandler.END *)

ADMIN_START == 0
EDIT_CHOOSE_OPTION == 1
EDIT_CHANNELS == 2
EDIT_IMAGES == 3
EDIT_TEXTS == 4
EDIT_SINGLE_CHANNEL == 5
EDIT_SINGLE_IMAGE == 6
EDIT_PROMO_TEXT == 7
EDIT_PROMO_LINK == 8
EDIT_JAIHO_LINK == 9
EDIT_CLAIM_LINK == 10
END == -1

\* number of entries of DEFAULT_CONFIG["images"]
NumImages == 6

ChoosingStates == {EDIT_CHANNELS, EDIT_IMAGES, EDIT_TEXTS}
AwaitStates == {EDIT_SINGLE_CHANNEL, EDIT_SINGLE_IMAGE, EDIT_PROMO_TEXT,
                EDIT_PROMO_LINK, EDIT_JAIHO_LINK, EDIT_CLAIM_LINK}
UrlAwaitStates == AwaitStates \ {EDIT_PROMO_TEXT}

----------------------------------------------------------------------------
(* Identities, chats and updates *)

ADMIN_CHAT_ID == "100"
OtherUser == "200"
Users == {ADMIN_CHAT_ID, OtherUser}

\* a conversation key is (chat, user): each user talks to the bot in a
\* private chat, whose id is the user's
Keys == {<<u, u>> : u \in Users}
AdminKeys == {k \in Keys : k[2] = ADMIN_CHAT_ID}

\* the strings of the model: the defaults, and the texts of messages
DefChan == "https://t.me/+default"
DefWeb == "https://example.com/default.jpg"
DefText == "Play and win"
NewChan == "https://t.me/+new"
Junk == "hello"
Texts == {NewChan, Junk}

Commands == {"admin", "cancel", "start", "help"}

CallbackData == {
    <<"edit", "channels">>, <<"edit", "images">>, <<"edit", "texts">>,
    <<"cancel">>, <<"back">>, <<"claim">>,
    <<"edit", "channel", "2">>, <<"edit", "channel", "9">>,
    <<"edit", "image", "1">>, <<"edit", "image", "0">>,
    <<"edit", "image", "7">>, <<"edit", "image", "x">>,
    <<"edit", "promo", "text">>, <<"edit", "promo", "link">>,
    <<"edit", "jaiho", "link">>, <<"edit", "claim", "link">> }

Command(c) == [kind |-> "command", command |-> c]
Text(t) == [kind |-> "text", text |-> t]
Callback(d) == [kind |-> "callback", data |-> d]
Photo == [kind |-> "photo"]

Updates == {Command(c) : c \in Commands} \cup {Text(t) : t \in Texts}
              \cup {Callback(d) : d \in CallbackData} \cup {Photo}

\* the outcome of each send of a handler, in order: TRUE when the send
\* succeeds, FALSE when it raises TelegramError
AllSent == <<TRUE, TRUE, TRUE, TRUE, TRUE>>
NoneSent == <<FALSE, FALSE, FALSE, FALSE, FALSE>>

----------------------------------------------------------------------------
(* Helpers for Python dicts and lists *)

\* d[k] = v on a dict
Put(d, k, v) == [x \in DOMAIN d \cup {k} |-> IF x = k THEN v ELSE d[x]]

\* del d[k] (k present)
Del(d, k) == [x \in DOMAIN d \ {k} |-> d[x]]

EmptyDict == [x \in {} |-> 0]

Last(seq) == seq[Len(seq)]

\* the decimal literals int() is applied to
Digits == <<"0", "1", "2", "3", "4", "5", "6", "7", "8", "9">>
IsIntLiteral(tok) == \E i \in 1..Len(Digits) : Digits[i] = tok
IntOf(tok) == (CHOOSE i \in 1..Len(Digits) : Digits[i] = tok) - 1

----------------------------------------------------------------------------
(* Config: the default record and the store *)

ChannelKeys == {"1", "2", "3", "4", "5"}
TextKeys == {"promo_text", "promo_link", "jaiho_link", "claim_link"}

\* Config.DEFAULT_CONFIG with the environment's values
DefaultConfig(chan, img, txt) ==
    [channels |-> chan, images |-> img,
     promo_text |-> txt["promo_text"], promo_link |-> txt["promo_link"],
     jaiho_link |-> txt["jaiho_link"], claim_link |-> txt["claim_link"]]

\* Config.init_db on a store with no rows: every table is filled from
\* DEFAULT_CONFIG
InitDb(dflt) ==
    [channels |-> dflt.channels,
     images |-> [i \in 1..Len(dflt.images) |-> dflt.images[i]],
     texts |-> [k \in TextKeys |-> dflt[k]]]

\* Config.init_db on the rows found in the store: the tables are created if
\* missing and each table with no row is filled from DEFAULT_CONFIG
InitDbOn(store, dflt) ==
    [channels |-> IF DOMAIN store.channels = {} THEN InitDb(dflt).channels
                  ELSE store.channels,
     images |-> IF DOMAIN store.images = {} THEN InitDb(dflt).images
                ELSE store.images,
     texts |-> IF DOMAIN store.texts = {} THEN InitDb(dflt).texts
               ELSE store.texts]

\* texts.get(key, DEFAULT_CONFIG[key])
TextsGet(store, dflt, k) ==
    IF k \in DOMAIN store.texts THEN store.texts[k] ELSE dflt[k]

\* Config.load_data, the sqlite reads succeeding
LoadData(store, dflt) ==
    [channels |-> store.channels,
     images |-> [i \in 1..Cardinality(DOMAIN store.images) |->
                   store.images[CHOOSE id \in DOMAIN store.images :
                       Cardinality({j \in DOMAIN store.images : j < id}) = i - 1]],
     promo_text |-> TextsGet(store, dflt, "promo_text"),
     promo_link |-> TextsGet(store, dflt, "promo_link"),
     jaiho_link |-> TextsGet(store, dflt, "jaiho_link"),
     claim_link |-> TextsGet(store, dflt, "claim_link")]

\* Config.load_data: the record read, or DEFAULT_CONFIG when a statement
\* raises sqlite3.Error (no table, a corrupt or locked file)
load_data(store, dflt, readable) ==
    IF readable THEN LoadData(store, dflt) ELSE dflt

\* save_data numbering the image rows from 0 (enumerate without its start)
SaveRows_ids_from_zero(store, d) ==
    [channels |-> [k \in DOMAIN store.channels \cup DOMAIN d.channels |->
                     IF k \in DOMAIN d.channels THEN d.channels[k]
                     ELSE store.channels[k]],
     images |-> [i \in 0..(Len(d.images) - 1) |-> d.images[i + 1]],
     texts |-> [k \in DOMAIN store.texts \cup TextKeys |->
                  IF k \in TextKeys THEN d[k] ELSE store.texts[k]]]

\* the rows after Config.save_data(d) commits
SaveRows(store, d) ==
    [channels |-> [k \in DOMAIN store.channels \cup DOMAIN d.channels |->
                     IF k \in DOMAIN d.channels THEN d.channels[k]
                     ELSE store.channels[k]],
     images |-> [i \in 1..Len(d.images) |-> d.images[i]],
     texts |-> [k \in DOMAIN store.texts \cup TextKeys |->
                  IF k \in TextKeys THEN d[k] ELSE store.texts[k]]]

\* the statements of save_data after which a sqlite3.Error can be raised:
\* none executed (connect, or the first INSERT), the channel rows replaced,
\* the images deleted, the images inserted, the texts replaced (the commit)
FailurePoints == 0..4

\* the rows as the open transaction of save_data(d) has them when the
\* statement after point k raises
Written(store, d, k) ==
    [channels |-> IF k >= 1 THEN SaveRows(store, d).channels ELSE store.channels,
     images |-> IF k >= 3 THEN SaveRows(store, d).images
                ELSE IF k = 2 THEN <<>> ELSE store.images,
     texts |-> IF k >= 4 THEN SaveRows(store, d).texts ELSE store.texts]

\* a connection that keeps what its statements wrote when the block is left
\* by an exception (autocommit)
Rollback_missing(store, written) == written

\* with sqlite3.connect(...) as conn: leaving the block by an exception
\* rolls the open transaction back
Rollback(store, written) == store

\* Config.save_data(d) with a sqlite3.Error after point k: rolled back,
\* logged, not raised
save_data_failing(store, d, k) == Rollback(store, Written(store, d, k))

\* Config.save_data: committed, or (sqlite3.Error, logged and swallowed)
\* rolled back by the connection's context manager
SaveData(store, d, committed) == IF committed THEN SaveRows(store, d) ELSE store

----------------------------------------------------------------------------
(* Handlers.  A handler takes the program state s (a record of the          *)
(* variables), the update and the outcomes net of its sends (net[i] is the *)
(* outcome of the send numbered i), and yields what it returns or raises   *)
(* together with the state it leaves.                                      *)

State == [data |-> data, db |-> db, conversations |-> conversations,
          user_data |-> user_data, edits |-> edits]

Return(v, s) == [kind |-> "return", state |-> v, exc |-> "", s |-> s]
ReturnNone(s) == [kind |-> "none", state |-> END, exc |-> "", s |-> s]
Raise(e, s) == [kind |-> "raise", state |-> END, exc |-> e, s |-> s]

\* is_admin with the comparison against ADMIN_CHAT_ID lost: any user with an
\* id passes
is_admin_any_id(user) == user # ""

\* BotHandlers.is_admin
is_admin(user) == user = ADMIN_CHAT_ID

\* whether Config.save_data raises: its except sqlite3.Error block logs the
\* error and returns, so no failure of the write reaches the caller
save_data_raises(committed) == FALSE

\* the first reply of an edit handler once the field is assigned and
\* save_config() was called: the confirmation of the try block, the report
\* of the except Exception block when save_config() raised
Confirmation == "updated successfully!"
ErrorReport == "An error occurred. Please try again."
EditReply(committed) ==
    IF save_data_raises(committed) THEN ErrorReport ELSE Confirmation

\* BotHandlers.save_config
save_config(s, committed) == [s EXCEPT !.db = SaveData(s.db, s.data, committed)]

\* BotHandlers.admin_start; its first send is numbered i.  has_message is
\* whether update.message is set: it is None on a callback query
admin_start(s, user, has_message, net, i) ==
    IF ~is_admin(user)
    THEN IF ~has_message THEN Raise("AttributeError", s)
         ELSE IF net[i] THEN Return(END, s) ELSE Raise("TelegramError", s)
    ELSE IF ~has_message THEN Raise("AttributeError", s)
         ELSE IF net[i] THEN Return(EDIT_CHOOSE_OPTION, s)
         ELSE IF net[i + 1] THEN Return(END, s)
         ELSE Raise("TelegramError", s)

\* the except TelegramError block of the callback handlers: the reply
\* numbered i, then END
ReportAndEnd(s, net, i) ==
    IF net[i] THEN Return(END, s) ELSE Raise("TelegramError", s)

\* admin_choose_option taking 'edit_channels' straight to the state that
\* awaits a channel URL
admin_choose_option_skipping(s, user, cb, net) ==
    IF ~net[1] THEN Raise("TelegramError", s)
    ELSE IF cb = <<"edit", "channels">>
         THEN IF net[2] THEN Return(EDIT_SINGLE_CHANNEL, s)
              ELSE ReportAndEnd(s, net, 3)
    ELSE IF cb = <<"edit", "images">>
         THEN IF net[2] THEN Return(EDIT_IMAGES, s) ELSE ReportAndEnd(s, net, 3)
    ELSE IF cb = <<"edit", "texts">>
         THEN IF net[2] THEN Return(EDIT_TEXTS, s) ELSE ReportAndEnd(s, net, 3)
    ELSE IF cb = <<"cancel">>
         THEN IF net[2] THEN Return(END, s) ELSE ReportAndEnd(s, net, 3)
    ELSE ReturnNone(s)

\* BotHandlers.admin_choose_option
admin_choose_option(s, user, cb, net) ==
    IF ~net[1] THEN Raise("TelegramError", s)
    ELSE IF cb = <<"edit", "channels">>
         THEN IF ~(ChannelKeys \subseteq DOMAIN s.data.channels)
              THEN Raise("KeyError", s)
              ELSE IF net[2] THEN Return(EDIT_CHANNELS, s)
              ELSE ReportAndEnd(s, net, 3)
    ELSE IF cb = <<"edit", "images">>
         THEN IF net[2] THEN Return(EDIT_IMAGES, s) ELSE ReportAndEnd(s, net, 3)
    ELSE IF cb = <<"edit", "texts">>
         THEN IF net[2] THEN Return(EDIT_TEXTS, s) ELSE ReportAndEnd(s, net, 3)
    ELSE IF cb = <<"cancel">>
         THEN IF net[2] THEN Return(END, s) ELSE ReportAndEnd(s, net, 3)
    ELSE ReturnNone(s)

\* query.data.startswith('edit_<what>_')
StartsWithEdit(cb, what) ==
    Len(cb) >= 3 /\ cb[1] = "edit" /\ cb[2] = what

\* edit_channels keeping the pending channel in the shared record instead of
\* the user's context.user_data
edit_channels_in_record(s, user, cb, net) ==
    IF ~net[1] THEN Raise("TelegramError", s)
    ELSE IF StartsWithEdit(cb, "channel")
         THEN LET channel_num == Last(cb)
                  t == [s EXCEPT !.data = Put(@, "editing_channel", channel_num),
                                 !.user_data[user] =
                                     Put(@, "editing_channel", channel_num)]
              IN IF net[2] THEN Return(EDIT_SINGLE_CHANNEL, t)
                 ELSE ReportAndEnd(t, net, 3)
    ELSE IF cb = <<"back">>
         THEN admin_start(s, user, FALSE, net, 2)
    ELSE ReturnNone(s)

\* BotHandlers.edit_channels
edit_channels(s, user, cb, net) ==
    IF ~net[1] THEN Raise("TelegramError", s)
    ELSE IF StartsWithEdit(cb, "channel")
         THEN LET channel_num == Last(cb)
                  t == [s EXCEPT !.user_data[user] =
                           Put(@, "editing_channel", channel_num)]
              IN IF net[2] THEN Return(EDIT_SINGLE_CHANNEL, t)
                 ELSE ReportAndEnd(t, net, 3)
    ELSE IF cb = <<"back">>
         THEN admin_start(s, user, FALSE, net, 2)
    ELSE ReturnNone(s)

\* edit_images keeping the 1-based number of the button as the list index
edit_images_one_based(s, user, cb, net) ==
    IF ~net[1] THEN Raise("TelegramError", s)
    ELSE IF StartsWithEdit(cb, "image")
         THEN IF ~IsIntLiteral(Last(cb)) THEN Raise("ValueError", s)
              ELSE LET img_num == IntOf(Last(cb))
                       t == [s EXCEPT !.user_data[user] =
                                Put(@, "editing_image", img_num)]
                   IN IF net[2] THEN Return(EDIT_SINGLE_IMAGE, t)
                      ELSE ReportAndEnd(t, net, 3)
    ELSE IF cb = <<"back">>
         THEN admin_start(s, user, FALSE, net, 2)
    ELSE ReturnNone(s)

\* BotHandlers.edit_images
edit_images(s, user, cb, net) ==
    IF ~net[1] THEN Raise("TelegramError", s)
    ELSE IF StartsWithEdit(cb, "image")
         THEN IF ~IsIntLiteral(Last(cb)) THEN Raise("ValueError", s)
              ELSE LET img_num == IntOf(Last(cb)) - 1
                       t == [s EXCEPT !.user_data[user] =
                                Put(@, "editing_image", img_num)]
                   IN IF net[2] THEN Return(EDIT_SINGLE_IMAGE, t)
                      ELSE ReportAndEnd(t, net, 3)
    ELSE IF cb = <<"back">>
         THEN admin_start(s, user, FALSE, net, 2)
    ELSE ReturnNone(s)

\* BotHandlers.edit_texts
edit_texts(s, user, cb, net) ==
    IF ~net[1] THEN Raise("TelegramError", s)
    ELSE IF cb = <<"edit", "promo", "text">>
         THEN IF net[2] THEN Return(EDIT_PROMO_TEXT, s) ELSE ReportAndEnd(s, net, 3)
    ELSE IF cb = <<"edit", "promo", "link">>
         THEN IF net[2] THEN Return(EDIT_PROMO_LINK, s) ELSE ReportAndEnd(s, net, 3)
    ELSE IF cb = <<"edit", "jaiho", "link">>
         THEN IF net[2] THEN Return(EDIT_JAIHO_LINK, s) ELSE ReportAndEnd(s, net, 3)
    ELSE IF cb = <<"edit", "claim", "link">>
         THEN IF net[2] THEN Return(EDIT_CLAIM_LINK, s) ELSE ReportAndEnd(s, net, 3)
    ELSE IF cb = <<"back">>
         THEN admin_start(s, user, FALSE, net, 2)
    ELSE ReturnNone(s)

\* the tail every edit_single_* / edit_<text> handler shares once the record
\* t is mutated and saved: the success reply, the menu of admin_start, and
\* the except Exception block that reports and ends
ConfirmAndMenu(t, user, net) ==
    IF ~net[1]
    THEN (IF net[2] THEN Return(END, t) ELSE Raise("TelegramError", t))
    ELSE LET r == admin_start(t, user, TRUE, net, 2)
         IN IF r.kind # "raise" THEN r
            ELSE IF net[4] THEN Return(END, t) ELSE Raise("TelegramError", t)

\* self.data[...] = value; self.save_config()
Mutate(s, d, committed) ==
    save_config([s EXCEPT !.data = d, !.edits = @ + 1], committed)

\* BotHandlers.edit_single_channel
edit_single_channel(s, user, new_url, net, committed) ==
    IF "editing_channel" \notin DOMAIN s.user_data[user]
    THEN Raise("KeyError", s)
    ELSE LET channel_num == s.user_data[user]["editing_channel"]
             d == [s.data EXCEPT !.channels = Put(@, channel_num, new_url)]
         IN ConfirmAndMenu(Mutate(s, d, committed), user, net)

\* list[i] = v: the position written, 0 when i is out of range (IndexError)
ListIndex(list, i) ==
    IF 0 <= i /\ i < Len(list) THEN i + 1
    ELSE IF i < 0 /\ -i <= Len(list) THEN Len(list) + i + 1
    ELSE 0

\* edit_single_image inserting the value before the position
\* (images.insert(img_num, new_url)) instead of assigning it
edit_single_image_inserting(s, user, new_url, net, committed) ==
    IF "editing_image" \notin DOMAIN s.user_data[user]
    THEN Raise("KeyError", s)
    ELSE LET img_num == s.user_data[user]["editing_image"]
             pos == ListIndex(s.data.images, img_num)
         IN IF pos = 0
            THEN (IF net[1] THEN Return(END, s) ELSE Raise("TelegramError", s))
            ELSE ConfirmAndMenu(
                     Mutate(s, [s.data EXCEPT !.images =
                                   SubSeq(@, 1, pos - 1) \o <<new_url>>
                                      \o SubSeq(@, pos, Len(@))], committed),
                     user, net)

\* BotHandlers.edit_single_image
edit_single_image(s, user, new_url, net, committed) ==
    IF "editing_image" \notin DOMAIN s.user_data[user]
    THEN Raise("KeyError", s)
    ELSE LET img_num == s.user_data[user]["editing_image"]
             pos == ListIndex(s.data.images, img_num)
         IN IF pos = 0
            THEN (IF net[1] THEN Return(END, s) ELSE Raise("TelegramError", s))
            ELSE ConfirmAndMenu(
                     Mutate(s, [s.data EXCEPT !.images[pos] = new_url], committed),
                     user, net)

\* BotHandlers.edit_promo_text
edit_promo_text(s, user, new_text, net, committed) ==
    ConfirmAndMenu(Mutate(s, [s.data EXCEPT !.promo_text = new_text], committed),
                   user, net)

\* BotHandlers.edit_promo_link
edit_promo_link(s, user, new_link, net, committed) ==
    ConfirmAndMenu(Mutate(s, [s.data EXCEPT !.promo_link = new_link], committed),
                   user, net)

\* BotHandlers.edit_jaiho_link
edit_jaiho_link(s, user, new_link, net, committed) ==
    ConfirmAndMenu(Mutate(s, [s.data EXCEPT !.jaiho_link = new_link], committed),
                   user, net)

\* BotHandlers.edit_claim_link
edit_claim_link(s, user, new_link, net, committed) ==
    ConfirmAndMenu(Mutate(s, [s.data EXCEPT !.claim_link = new_link], committed),
                   user, net)

\* BotHandlers.cancel_admin
cancel_admin(s, net) ==
    IF net[1] THEN Return(END, s)
    ELSE IF net[2] THEN Return(END, s)
    ELSE Raise("TelegramError", s)

\* the except TelegramError block of the promo handlers: the reply numbered
\* i, then the handler ends without a value
ReportOnly(s, net, i) ==
    IF net[i] THEN ReturnNone(s) ELSE Raise("TelegramError", s)

\* BotHandlers.send_promo_message: the photo images[0] with the channel
\* buttons, then the reply keyboard
send_promo_message(s, net) ==
    IF ~(ChannelKeys \subseteq DOMAIN s.data.channels) THEN Raise("KeyError", s)
    ELSE IF Len(s.data.images) = 0 THEN Raise("IndexError", s)
    ELSE IF net[1] /\ net[2] THEN ReturnNone(s)
    ELSE ReportOnly(s, net, 3)

\* the photo send_promo_message sends: self.data['images'][0]
PromoPhoto(s) == s.data.images[1]

\* BotHandlers.handle_start_with_images on a /start command (a text message,
\* message.photo empty): start(), that is send_promo_message; the handler's
\* own except block reports a TelegramError that escapes it
handle_start_with_images(s, net) ==
    LET r == send_promo_message(s, net)
    IN IF r.kind = "raise" /\ r.exc = "TelegramError"
       THEN ReportOnly(s, net, 4)
       ELSE r

\* BotHandlers.button_callback: on 'claim' the images, the promo text and
\* the channel buttons are sent; nothing is written
button_callback(s, cb, net) ==
    IF ~net[1] THEN Raise("TelegramError", s)
    ELSE IF cb = <<"claim">>
         THEN IF Len(s.data.images) > 0 /\ ~net[2] THEN ReportOnly(s, net, 5)
              ELSE IF ~(ChannelKeys \subseteq DOMAIN s.data.channels)
                   THEN Raise("KeyError", s)
              ELSE IF net[3] /\ net[4] THEN ReturnNone(s)
              ELSE ReportOnly(s, net, 5)
    ELSE ReturnNone(s)

\* button_image_map of custom_keyboard_handler
button_image_map ==
    [b \in {"Yono 777", "BIG PromoCode", "Jaiho Arcade", "Lucky Gullak"} |->
        CASE b = "Yono 777" -> 0
          [] b = "BIG PromoCode" -> 1
          [] b = "Jaiho Arcade" -> 2
          [] b = "Lucky Gullak" -> 3]

\* BotHandlers.custom_keyboard_handler
custom_keyboard_handler(s, button_text, net) ==
    IF button_text \notin DOMAIN button_image_map
    THEN (IF net[1] THEN ReturnNone(s) ELSE ReportOnly(s, net, 2))
    ELSE IF ~({"2", "3", "4", "5"} \subseteq DOMAIN s.data.channels)
         THEN Raise("KeyError", s)
    ELSE IF ListIndex(s.data.images, button_image_map[button_text]) = 0
         THEN Raise("IndexError", s)
    ELSE IF net[1] THEN ReturnNone(s) ELSE ReportOnly(s, net, 2)

\* BotHandlers.handle_url_click: the notice to the admin, any failure of
\* which is logged and swallowed
handle_url_click(s, net) == ReturnNone(s)

----------------------------------------------------------------------------
(* ConversationHandler (per chat and per user, no re-entry) as main() builds *)
(* admin_conv_handler                                                      *)

\* ConversationHandler.check_update: the callback chosen for update u of the
\* conversation key, "" when the handler does not take the update
ConvSelect(s, key, u) ==
    IF key \notin DOMAIN s.conversations
    THEN (IF u.kind = "command" /\ u.command = "admin" THEN "admin_start" ELSE "")
    ELSE LET st == s.conversations[key]
         IN IF u.kind = "callback" /\ st \in {ADMIN_START, EDIT_CHOOSE_OPTION}
               THEN "admin_choose_option"
            ELSE IF u.kind = "callback" /\ st = EDIT_CHANNELS THEN "edit_channels"
            ELSE IF u.kind = "callback" /\ st = EDIT_IMAGES THEN "edit_images"
            ELSE IF u.kind = "callback" /\ st = EDIT_TEXTS THEN "edit_texts"
            ELSE IF u.kind = "text" /\ st = EDIT_SINGLE_CHANNEL
               THEN "edit_single_channel"
            ELSE IF u.kind = "text" /\ st = EDIT_SINGLE_IMAGE
               THEN "edit_single_image"
            ELSE IF u.kind = "text" /\ st = EDIT_PROMO_TEXT THEN "edit_promo_text"
            ELSE IF u.kind = "text" /\ st = EDIT_PROMO_LINK THEN "edit_promo_link"
            ELSE IF u.kind = "text" /\ st = EDIT_JAIHO_LINK THEN "edit_jaiho_link"
            ELSE IF u.kind = "text" /\ st = EDIT_CLAIM_LINK THEN "edit_claim_link"
            ELSE IF u.kind = "command" THEN "cancel_admin"
            ELSE ""

\* the callback named h run on update u
Call(h, s, key, u, net, committed) ==
    LET user == key[2]
    IN CASE h = "admin_start" -> admin_start(s, user, TRUE, net, 1)
         [] h = "admin_choose_option" -> admin_choose_option(s, user, u.data, net)
         [] h = "edit_channels" -> edit_channels(s, user, u.data, net)
         [] h = "edit_images" -> edit_images(s, user, u.data, net)
         [] h = "edit_texts" -> edit_texts(s, user, u.data, net)
         [] h = "edit_single_channel" ->
                edit_single_channel(s, user, u.text, net, committed)
         [] h = "edit_single_image" ->
                edit_single_image(s, user, u.text, net, committed)
         [] h = "edit_promo_text" -> edit_promo_text(s, user, u.text, net, committed)
         [] h = "edit_promo_link" -> edit_promo_link(s, user, u.text, net, committed)
         [] h = "edit_jaiho_link" -> edit_jaiho_link(s, user, u.text, net, committed)
         [] h = "edit_claim_link" -> edit_claim_link(s, user, u.text, net, committed)
         [] h = "cancel_admin" -> cancel_admin(s, net)
         [] h = "handle_start_with_images" -> handle_start_with_images(s, net)
         [] h = "button_callback" -> button_callback(s, u.data, net)
         [] h = "custom_keyboard_handler" ->
                custom_keyboard_handler(s, u.text, net)
         [] h = "handle_url_click" -> handle_url_click(s, net)
         [] OTHER -> ReturnNone(s)

\* ConversationHandler._update_state with what the callback returned: END
\* deletes the conversation, another state is stored, None (or a raise, which
\* leaves handle_update before the state is touched) keeps the state
UpdateState(r, key) ==
    IF r.kind # "return" THEN r.s
    ELSE IF r.state = END
         THEN (IF key \in DOMAIN r.s.conversations
               THEN [r.s EXCEPT !.conversations = Del(@, key)]
               ELSE r.s)
    ELSE [r.s EXCEPT !.conversations = Put(@, key, r.state)]

\* ConversationHandler.handle_update: the state after admin_conv_handler
\* handled update u (u unchanged when it does not take the update)
ConvHandle(s, key, u, net, committed) ==
    LET h == ConvSelect(s, key, u)
    IN IF h = "" THEN s ELSE UpdateState(Call(h, s, key, u, net, committed), key)

----------------------------------------------------------------------------
(* Application.process_update with the handlers main() adds, all to group *)
(* 0: the first handler whose check_update accepts the update handles it  *)

AppSelect(s, key, u) ==
    IF u.kind = "command" /\ u.command = "start" THEN "handle_start_with_images"
    ELSE IF u.kind = "callback" THEN "button_callback"
    ELSE IF u.kind = "text" THEN "custom_keyboard_handler"
    ELSE IF u.kind # "command" THEN "handle_url_click"
    ELSE ConvSelect(s, key, u)

PlainHandlers == {"handle_start_with_images", "button_callback",
                  "custom_keyboard_handler", "handle_url_click"}

\* the state after the application processed update u
ProcessUpdate(s, key, u, net, committed) ==
    LET h == AppSelect(s, key, u)
    IN IF h = "" THEN s
       ELSE IF h \in PlainHandlers THEN Call(h, s, key, u, net, committed).s
       ELSE ConvHandle(s, key, u, net, committed)

----------------------------------------------------------------------------
(* Initial states: BotHandlers.__init__ (init_db on an empty store, then   *)
(* load_data), no conversation, every user_data empty                     *)

WellFormedDefault ==
    DefaultConfig([k \in ChannelKeys |-> DefChan],
                  [i \in 1..NumImages |-> DefWeb],
                  [k \in TextKeys |-> IF k = "promo_text" THEN DefText ELSE DefWeb])

\* the values the environment may give a default
EnvChannels == {DefChan, Junk}
EnvUrls == {DefWeb, Junk}

\* the environment with both credentials set
Credentials == [BOT_TOKEN |-> TRUE, ADMIN_CHAT_ID |-> TRUE]

\* no load_data under way
Idle == [at |-> "idle"]

\* bot_data.db before init_db, and self.data before BotHandlers()
NoStore == [channels |-> EmptyDict, images |-> <<>>, texts |-> EmptyDict]
NoData == EmptyDict

\* the application polling, BotHandlers() built on a store with no rows
InitWith(dflt) ==
    /\ db = InitDb(dflt)
    /\ data = LoadData(InitDb(dflt), dflt)
    /\ conversations = EmptyDict
    /\ user_data = [u \in Users |-> EmptyDict]
    /\ edits = 0
    /\ handled = <<"", "">>
    /\ pc = "polling"
    /\ env = Credentials
    /\ load = Idle

\* the defaults well-formed
Init == InitWith(WellFormedDefault)

\* DEFAULT_CONFIG as the environment may give it
EnvDefaults ==
    {DefaultConfig(chan, [i \in 1..NumImages |-> IF i = 1 THEN first ELSE rest],
                   WellFormedDefault) :
        chan \in [ChannelKeys -> EnvChannels], first \in EnvUrls, rest \in EnvUrls}

\* the process at the start of main(), the credentials set or not
InitMain ==
    /\ db = NoStore
    /\ data = NoData
    /\ conversations = EmptyDict
    /\ user_data = [u \in Users |-> EmptyDict]
    /\ edits = 0
    /\ handled = <<"", "">>
    /\ pc = "main"
    /\ env \in [BOT_TOKEN : BOOLEAN, ADMIN_CHAT_ID : BOOLEAN]
    /\ load = Idle

\* main() without its two credential checks: BotHandlers() and the
\* registration whatever the environment holds
Main_without_credential_checks ==
    /\ pc = "main"
    /\ \/ /\ pc' = "crashed"
          /\ UNCHANGED <<data, db>>
       \/ \E dflt \in EnvDefaults :
             /\ pc' = "polling"
             /\ db' = InitDb(dflt)
             /\ data' = LoadData(InitDb(dflt), dflt)
    /\ UNCHANGED <<conversations, user_data, edits, handled, env, load>>

\* main() up to run_polling: exit(1) without a credential; else
\* BotHandlers() (init_db, which raises on a sqlite error, then load_data)
\* and the registration of the handlers
Main ==
    /\ pc = "main"
    /\ IF ~env.BOT_TOKEN \/ ~env.ADMIN_CHAT_ID
       THEN /\ pc' = "exited"
            /\ UNCHANGED <<data, db>>
       ELSE \/ /\ pc' = "crashed"
               /\ UNCHANGED <<data, db>>
            \/ \E dflt \in EnvDefaults :
                  /\ pc' = "polling"
                  /\ db' = InitDb(dflt)
                  /\ data' = LoadData(InitDb(dflt), dflt)
    /\ UNCHANGED <<conversations, user_data, edits, handled, env, load>>

----------------------------------------------------------------------------
(* Actions: one per callback, an update being handled in one step *)

\* the scripts a handler can tell apart: a handler reads the outcome of a
\* send only when it makes the send, so the other outcomes are left TRUE
Net0 == {AllSent}
\* admin_start, cancel_admin, custom_keyboard_handler: a send, then the
\* report of its failure
Net2 == {AllSent, <<FALSE, TRUE, TRUE, TRUE, TRUE>>,
         <<FALSE, FALSE, TRUE, TRUE, TRUE>>}
\* the callback handlers: the answer, the edited message, then the report
Net3 == {AllSent, <<FALSE, TRUE, TRUE, TRUE, TRUE>>,
         <<TRUE, FALSE, TRUE, TRUE, TRUE>>, <<TRUE, FALSE, FALSE, TRUE, TRUE>>}
\* the edit handlers: the confirmation, the menu of admin_start, the report
\* of admin_start, the report of the handler
Net4 == Net2 \cup {<<TRUE, FALSE, TRUE, TRUE, TRUE>>,
                   <<TRUE, FALSE, FALSE, TRUE, TRUE>>,
                   <<TRUE, FALSE, FALSE, FALSE, TRUE>>}
\* /start: the photo, the keyboard, the report of send_promo_message, the
\* report of handle_start_with_images
NetStart == {AllSent, <<FALSE, TRUE, TRUE, TRUE, TRUE>>,
             <<FALSE, TRUE, FALSE, TRUE, TRUE>>, <<FALSE, TRUE, FALSE, FALSE, TRUE>>,
             <<TRUE, FALSE, TRUE, TRUE, TRUE>>}
\* button_callback: the answer, three sends, the report
Net5 == {AllSent, <<FALSE, TRUE, TRUE, TRUE, TRUE>>,
         <<TRUE, FALSE, TRUE, TRUE, TRUE>>, <<TRUE, FALSE, TRUE, TRUE, FALSE>>,
         <<TRUE, TRUE, FALSE, TRUE, TRUE>>, <<TRUE, TRUE, TRUE, FALSE, FALSE>>}

Apply(t, key, h) ==
    /\ pc = "polling"
    /\ t.edits <= MaxEdits
    /\ UNCHANGED <<pc, env, load>>
    /\ handled' = <<key[2], h>>
    /\ data' = t.data
    /\ db' = t.db
    /\ conversations' = t.conversations
    /\ user_data' = t.user_data
    /\ edits' = t.edits

Callbacks == {Callback(d) : d \in CallbackData}
\* the callback data a state's handler is given: those its branches tell
\* apart, among them data no keyboard of the state offers
MenuCallbacks ==
    {Callback(d) : d \in {<<"edit", "channels">>, <<"edit", "images">>,
                          <<"edit", "texts">>, <<"cancel">>, <<"back">>}}
ChannelCallbacks ==
    {Callback(d) : d \in {<<"edit", "channel", "2">>, <<"edit", "channel", "9">>,
                          <<"back">>, <<"cancel">>}}
ImageCallbacks ==
    {Callback(d) : d \in {<<"edit", "image", "1">>, <<"edit", "image", "0">>,
                          <<"edit", "image", "7">>, <<"edit", "image", "x">>,
                          <<"back">>, <<"cancel">>}}
TextCallbacks ==
    {Callback(d) : d \in {<<"edit", "promo", "text">>, <<"edit", "promo", "link">>,
                          <<"edit", "jaiho", "link">>, <<"edit", "claim", "link">>,
                          <<"back">>, <<"cancel">>}}
TextMessages == {Text(t) : t \in Texts}

\* admin_conv_handler: one action per callback, over the updates its
\* handler takes, the outcomes of its sends and of its save
AdminStart ==
    \E key \in Keys, u \in {Command("admin")} :
        /\ ConvSelect(State, key, u) = "admin_start"
        /\ \E net \in Net2, committed \in {TRUE} :
               Apply(ConvHandle(State, key, u, net, committed), key, "admin_start")

AdminChooseOption ==
    \E key \in Keys, u \in MenuCallbacks :
        /\ ConvSelect(State, key, u) = "admin_choose_option"
        /\ \E net \in Net3, committed \in {TRUE} :
               Apply(ConvHandle(State, key, u, net, committed), key, "admin_choose_option")

EditChannels ==
    \E key \in Keys, u \in ChannelCallbacks :
        /\ ConvSelect(State, key, u) = "edit_channels"
        /\ \E net \in Net3, committed \in {TRUE} :
               Apply(ConvHandle(State, key, u, net, committed), key, "edit_channels")

EditImages ==
    \E key \in Keys, u \in ImageCallbacks :
        /\ ConvSelect(State, key, u) = "edit_images"
        /\ \E net \in Net3, committed \in {TRUE} :
               Apply(ConvHandle(State, key, u, net, committed), key, "edit_images")

EditTexts ==
    \E key \in Keys, u \in TextCallbacks :
        /\ ConvSelect(State, key, u) = "edit_texts"
        /\ \E net \in Net3, committed \in {TRUE} :
               Apply(ConvHandle(State, key, u, net, committed), key, "edit_texts")

EditSingleChannel ==
    \E key \in Keys, u \in TextMessages :
        /\ ConvSelect(State, key, u) = "edit_single_channel"
        /\ \E net \in Net4, committed \in BOOLEAN :
               Apply(ConvHandle(State, key, u, net, committed), key, "edit_single_channel")

EditSingleImage ==
    \E key \in Keys, u \in TextMessages :
        /\ ConvSelect(State, key, u) = "edit_single_image"
        /\ \E net \in Net4, committed \in BOOLEAN :
               Apply(ConvHandle(State, key, u, net, committed), key, "edit_single_image")

EditPromoText ==
    \E key \in Keys, u \in TextMessages :
        /\ ConvSelect(State, key, u) = "edit_promo_text"
        /\ \E net \in Net4, committed \in BOOLEAN :
               Apply(ConvHandle(State, key, u, net, committed), key, "edit_promo_text")

EditPromoLink ==
    \E key \in Keys, u \in TextMessages :
        /\ ConvSelect(State, key, u) = "edit_promo_link"
        /\ \E net \in Net4, committed \in BOOLEAN :
               Apply(ConvHandle(State, key, u, net, committed), key, "edit_promo_link")

EditJaihoLink ==
    \E key \in Keys, u \in TextMessages :
        /\ ConvSelect(State, key, u) = "edit_jaiho_link"
        /\ \E net \in Net4, committed \in BOOLEAN :
               Apply(ConvHandle(State, key, u, net, committed), key, "edit_jaiho_link")

EditClaimLink ==
    \E key \in Keys, u \in TextMessages :
        /\ ConvSelect(State, key, u) = "edit_claim_link"
        /\ \E net \in Net4, committed \in BOOLEAN :
               Apply(ConvHandle(State, key, u, net, committed), key, "edit_claim_link")

\* the fallbacks: /cancel, and any other command
CancelAdmin ==
    \E key \in Keys, u \in {Command(c) : c \in Commands \ {"start"}} :
        /\ ConvSelect(State, key, u) = "cancel_admin"
        /\ \E net \in Net2, committed \in {TRUE} :
               Apply(ConvHandle(State, key, u, net, committed), key, "cancel_admin")

CancelAdminOnStart ==
    \E key \in Keys, u \in {Command("start")} :
        /\ ConvSelect(State, key, u) = "cancel_admin"
        /\ \E net \in Net2, committed \in {TRUE} :
               Apply(ConvHandle(State, key, u, net, committed), key, "cancel_admin")

\* the handlers main() adds before admin_conv_handler
HandleStartWithImages ==
    \E key \in Keys, u \in {Command("start")} :
        /\ AppSelect(State, key, u) = "handle_start_with_images"
        /\ \E net \in NetStart :
               Apply(ProcessUpdate(State, key, u, net, TRUE), key, "handle_start_with_images")

ButtonCallback ==
    \E key \in Keys, u \in Callbacks :
        /\ AppSelect(State, key, u) = "button_callback"
        /\ \E net \in Net5 :
               Apply(ProcessUpdate(State, key, u, net, TRUE), key, "button_callback")

CustomKeyboardHandler ==
    \E key \in Keys, u \in TextMessages :
        /\ AppSelect(State, key, u) = "custom_keyboard_handler"
        /\ \E net \in Net2 :
               Apply(ProcessUpdate(State, key, u, net, TRUE), key, "custom_keyboard_handler")

HandleUrlClick ==
    \E key \in Keys, u \in {Photo} :
        /\ AppSelect(State, key, u) = "handle_url_click"
        /\ \E net \in Net0 :
               Apply(ProcessUpdate(State, key, u, net, TRUE), key, "handle_url_click")

----------------------------------------------------------------------------
(* Specifications *)

\* the application as main() registers its handlers: only commands other
\* than /start get as far as admin_conv_handler
Next ==
    \/ Main
    \/ HandleStartWithImages
    \/ ButtonCallback
    \/ CustomKeyboardHandler
    \/ HandleUrlClick
    \/ AdminStart
    \/ CancelAdmin

Spec == InitMain /\ [][Next]_vars

\* admin_conv_handler given every update: the wizard as its states and
\* callbacks define it
NextWizard ==
    \/ AdminStart
    \/ AdminChooseOption
    \/ EditChannels
    \/ EditImages
    \/ EditTexts
    \/ EditSingleChannel
    \/ EditSingleImage
    \/ EditPromoText
    \/ EditPromoLink
    \/ EditJaihoLink
    \/ EditClaimLink
    \/ CancelAdmin
    \/ CancelAdminOnStart

SpecWizard == Init /\ [][NextWizard]_vars

----------------------------------------------------------------------------
(* The admin talking to the bot in two chats, the private chat and a group *)
(* the bot is a member of.  admin_conv_handler keeps one conversation per  *)
(* (chat, user) (per_chat and per_user are left at their defaults), while  *)
(* context.user_data is one dict per user, whatever the chat.  Here        *)
(* handled is <<chat, callback>>, and every send and save succeeds.        *)

GroupChat == "-300"
GroupKey == <<GroupChat, ADMIN_CHAT_ID>>
ChatKeys == {<<ADMIN_CHAT_ID, ADMIN_CHAT_ID>>, GroupKey}

\* the buttons pressed in the two chats
ChatMenuCallbacks ==
    {Callback(d) : d \in {<<"edit", "channels">>, <<"edit", "images">>, <<"cancel">>}}
ChatChannelCallbacks ==
    {Callback(d) : d \in {<<"edit", "channel", "2">>, <<"edit", "channel", "5">>}}
ChatImageCallbacks ==
    {Callback(d) : d \in {<<"edit", "image", "1">>, <<"edit", "image", "2">>}}

ApplyChat(t, key, h) ==
    /\ pc = "polling"
    /\ t.edits <= MaxEdits
    /\ UNCHANGED <<pc, env, load>>
    /\ handled' = <<key[1], h>>
    /\ data' = t.data
    /\ db' = t.db
    /\ conversations' = t.conversations
    /\ user_data' = t.user_data
    /\ edits' = t.edits

ChatAdminStart ==
    \E key \in ChatKeys, u \in {Command("admin")} :
        /\ ConvSelect(State, key, u) = "admin_start"
        /\ ApplyChat(ConvHandle(State, key, u, AllSent, TRUE), key, "admin_start")

ChatAdminChooseOption ==
    \E key \in ChatKeys, u \in ChatMenuCallbacks :
        /\ ConvSelect(State, key, u) = "admin_choose_option"
        /\ ApplyChat(ConvHandle(State, key, u, AllSent, TRUE), key,
                     "admin_choose_option")

ChatEditChannels ==
    \E key \in ChatKeys, u \in ChatChannelCallbacks :
        /\ ConvSelect(State, key, u) = "edit_channels"
        /\ ApplyChat(ConvHandle(State, key, u, AllSent, TRUE), key, "edit_channels")

ChatEditImages ==
    \E key \in ChatKeys, u \in ChatImageCallbacks :
        /\ ConvSelect(State, key, u) = "edit_images"
        /\ ApplyChat(ConvHandle(State, key, u, AllSent, TRUE), key, "edit_images")

ChatEditSingleChannel ==
    \E key \in ChatKeys, u \in TextMessages :
        /\ ConvSelect(State, key, u) = "edit_single_channel"
        /\ ApplyChat(ConvHandle(State, key, u, AllSent, TRUE), key,
                     "edit_single_channel")

ChatEditSingleImage ==
    \E key \in ChatKeys, u \in TextMessages :
        /\ ConvSelect(State, key, u) = "edit_single_image"
        /\ ApplyChat(ConvHandle(State, key, u, AllSent, TRUE), key,
                     "edit_single_image")

ChatCancelAdmin ==
    \E key \in ChatKeys, u \in {Command("cancel")} :
        /\ ConvSelect(State, key, u) = "cancel_admin"
        /\ ApplyChat(ConvHandle(State, key, u, AllSent, TRUE), key, "cancel_admin")

NextChats ==
    \/ ChatAdminStart
    \/ ChatAdminChooseOption
    \/ ChatEditChannels
    \/ ChatEditImages
    \/ ChatEditSingleChannel
    \/ ChatEditSingleImage
    \/ ChatCancelAdmin

SpecChats == Init /\ [][NextChats]_vars

----------------------------------------------------------------------------
(* Config's store functions on their own: init_db, save_data and load_data *)
(* applied to a store as found, load_data one SELECT at a time so that a   *)
(* save_data of another connection can commit between two of them.  Here   *)
(* handled is <<condition of the store, function run>>, the condition      *)
(* "absent" (no file, no table), "corrupt", "found" (rows of any origin)   *)
(* or "init_db" (rows init_db put in an absent store, and saves since).    *)

\* rows a store may be found with
StoreChannels ==
    {EmptyDict, WellFormedDefault.channels,
     Put(WellFormedDefault.channels, "9", Junk)}
StoreImages ==
    {<<>>, WellFormedDefault.images, [id \in {2, 5} |-> IF id = 2 THEN DefWeb ELSE NewChan]}
StoreTexts ==
    {EmptyDict, InitDb(WellFormedDefault).texts,
     [k \in {"promo_text"} |-> Junk]}

\* records given to save_data
Records ==
    {WellFormedDefault,
     [WellFormedDefault EXCEPT !.channels["2"] = NewChan, !.images[1] = NewChan,
                               !.promo_link = NewChan],
     [WellFormedDefault EXCEPT !.images = <<NewChan, DefWeb>>, !.promo_text = Junk]}

InitStore ==
    /\ \/ /\ db = NoStore
          /\ handled \in {<<"absent", "">>, <<"corrupt", "">>}
       \/ /\ db \in [channels : StoreChannels, images : StoreImages,
                      texts : StoreTexts]
          /\ handled = <<"found", "">>
    /\ data = NoData
    /\ conversations = EmptyDict
    /\ user_data = [u \in Users |-> EmptyDict]
    /\ edits = 0
    /\ pc = "polling"
    /\ env = Credentials
    /\ load = Idle

\* the tables exist and the file can be read
HasTables == handled[1] \in {"found", "init_db"}

\* a load_data is between two of its SELECTs
Loading == load.at \in {"images", "texts"}

\* Config.init_db: raises on a sqlite error (always on a corrupt file)
StoreInitDb ==
    /\ \E ok \in BOOLEAN :
          IF ok /\ handled[1] # "corrupt"
          THEN /\ db' = InitDbOn(db, WellFormedDefault)
               /\ handled' = <<IF handled[1] = "absent" THEN "init_db" ELSE handled[1],
                               "init_db">>
          ELSE /\ db' = db
               /\ handled' = <<handled[1], "init_db raised">>
    /\ ~Loading
    /\ UNCHANGED <<load, data, conversations, user_data, edits, pc, env>>

\* Config.save_data(r): without tables every statement raises.  A commit
\* between two SELECTs of a load_data gives the load one more content of
\* the store to read from
StoreSaveData ==
    /\ \E r \in Records, committed \in BOOLEAN :
          db' = SaveData(db, r, committed /\ HasTables)
    /\ handled' = <<handled[1], "save_data">>
    /\ IF Loading
       THEN /\ Cardinality(load.seen) <= MaxSavesPerLoad
            /\ load' = [load EXCEPT !.seen = @ \cup {db'}]
       ELSE load' = load
    /\ UNCHANGED <<data, conversations, user_data, edits, pc, env>>

\* BotHandlers.save_config on the record load_data returned
StoreSaveConfig ==
    /\ data # NoData
    /\ HasTables
    /\ db' = SaveData(db, data, TRUE)
    /\ handled' = <<handled[1], "save_config">>
    /\ ~Loading
    /\ UNCHANGED <<load, data, conversations, user_data, edits, pc, env>>

\* load_data: SELECT id, url FROM channels; any sqlite error ends the load
\* with DEFAULT_CONFIG
LoadChannels ==
    /\ load.at \in {"idle", "done"}
    /\ \E readable \in BOOLEAN :
          IF readable /\ HasTables
          THEN /\ load' = [at |-> "images", channels |-> db.channels,
                           images |-> <<>>, seen |-> {db}]
               /\ data' = data
          ELSE /\ load' = [at |-> "done"]
               /\ data' = load_data(db, WellFormedDefault, FALSE)
    /\ handled' = <<handled[1], "load_data">>
    /\ UNCHANGED <<db, conversations, user_data, edits, pc, env>>

\* load_data: SELECT url FROM images ORDER BY id
LoadImages ==
    /\ load.at = "images"
    /\ load' = [load EXCEPT !.at = "texts",
                            !.images = LoadData(db, WellFormedDefault).images]
    /\ handled' = <<handled[1], "load_data">>
    /\ UNCHANGED <<data, db, conversations, user_data, edits, pc, env>>

\* load_data: SELECT key, value FROM texts, and the record returned
LoadTexts ==
    /\ load.at = "texts"
    /\ load' = [at |-> "done"]
    /\ data' = [LoadData(db, WellFormedDefault)
                   EXCEPT !.channels = load.channels, !.images = load.images]
    /\ handled' = <<handled[1], "load_data">>
    /\ UNCHANGED <<db, conversations, user_data, edits, pc, env>>

NextStore ==
    \/ StoreInitDb
    \/ StoreSaveData
    \/ StoreSaveConfig
    \/ LoadChannels
    \/ LoadImages
    \/ LoadTexts

SpecStore == InitStore /\ [][NextStore]_vars

----------------------------------------------------------------------------
(* The vocabulary of the claims *)

\* the state of the conversation of key, END when there is none (CLOSED)
Session(convs, key) == IF key \in DOMAIN convs THEN convs[key] ELSE END

AdminKey == <<ADMIN_CHAT_ID, ADMIN_CHAT_ID>>
OtherKey == <<OtherUser, OtherUser>>

\* urlparse of the strings of the model: scheme, host, and the path after
\* its leading slash, cut after its first character
UrlParse(t) ==
    CASE t = DefChan -> [scheme |-> "https", host |-> "t.me", path |-> <<"+", "default">>]
      [] t = NewChan -> [scheme |-> "https", host |-> "t.me", path |-> <<"+", "new">>]
      [] t = DefWeb -> [scheme |-> "https", host |-> "example.com",
                        path |-> <<"d", "efault.jpg">>]
      [] OTHER -> [scheme |-> "", host |-> "", path |-> <<>>]

\* isGenericUrl: an absolute URL with scheme http or https and a host
IsGenericUrl(t) ==
    UrlParse(t).scheme \in {"http", "https"} /\ UrlParse(t).host # ""

\* isChannelUrl: a generic URL that starts with the invite-link prefix
\* https://t.me/+
IsChannelUrl(t) ==
    /\ IsGenericUrl(t)
    /\ UrlParse(t).scheme = "https" /\ UrlParse(t).host = "t.me"
    /\ Len(UrlParse(t).path) >= 1 /\ UrlParse(t).path[1] = "+"

\* a record every URL of which passes the validator of its field
WellFormed(d) ==
    /\ \A k \in DOMAIN d.channels : IsChannelUrl(d.channels[k])
    /\ \A i \in 1..Len(d.images) : IsGenericUrl(d.images[i])
    /\ IsGenericUrl(d.promo_link)
    /\ IsGenericUrl(d.jaiho_link)
    /\ IsGenericUrl(d.claim_link)

\* the validator of the field an AWAIT_* state edits
ValidFor(st, t) == IF st = EDIT_SINGLE_CHANNEL THEN IsChannelUrl(t) ELSE IsGenericUrl(t)

CallbackHandlers == {"admin_choose_option", "edit_channels", "edit_images",
                     "edit_texts", "button_callback"}
EditHandlers == {"edit_single_channel", "edit_single_image", "edit_promo_text",
                 "edit_promo_link", "edit_jaiho_link", "edit_claim_link"}

----------------------------------------------------------------------------
(* C1 *)

\* C1 (as claimed): with the handlers as main() registers them and every send
\* and save succeeding, from the admin's session in MENU just after /admin
\* the updates <button edit_channels, button edit_channel_2, text u>, u a
\* valid channel URL, end with the session in MENU and u as channel 2 of the
\* record and of the store.
C1_EditChannelTwo ==
    \A u \in Texts :
        (/\ IsChannelUrl(u)
         /\ handled = <<ADMIN_CHAT_ID, "admin_start">>
         /\ Session(conversations, AdminKey) = EDIT_CHOOSE_OPTION)
        => LET s1 == ProcessUpdate(State, AdminKey,
                                   Callback(<<"edit", "channels">>), AllSent, TRUE)
               s2 == ProcessUpdate(s1, AdminKey,
                                   Callback(<<"edit", "channel", "2">>), AllSent, TRUE)
               s3 == ProcessUpdate(s2, AdminKey, Text(u), AllSent, TRUE)
           IN /\ Session(s3.conversations, AdminKey) = EDIT_CHOOSE_OPTION
              /\ s3.data.channels["2"] = u
              /\ s3.db.channels["2"] = u

----------------------------------------------------------------------------
(* C2 *)

\* C2 (as claimed): in every AWAIT_* state that expects a URL, a text that
\* fails the field's validator leaves the session in that state and the
\* record and the store unchanged.
C2_InvalidUrlRejected ==
    \A key \in Keys, t \in Texts, net \in Net4, committed \in BOOLEAN :
        (/\ Session(conversations, key) \in UrlAwaitStates
         /\ ~ValidFor(Session(conversations, key), t))
        => LET r == ConvHandle(State, key, Text(t), net, committed)
           IN /\ Session(r.conversations, key) = Session(conversations, key)
              /\ r.data = data
              /\ r.db = db

----------------------------------------------------------------------------
(* C3 *)

\* C3: an identity other than ADMIN_CHAT_ID never has a conversation, and in
\* every reachable state its /admin, whatever becomes of the sends, is
\* handled without creating one and without changing the record or the store.
C3_NonAdminRefused ==
    \A key \in Keys \ AdminKeys :
        /\ key \notin DOMAIN conversations
        /\ \A net \in Net2 :
              LET r == ConvHandle(State, key, Command("admin"), net, TRUE)
                  q == ProcessUpdate(State, key, Command("admin"), net, TRUE)
              IN /\ ConvSelect(State, key, Command("admin")) = "admin_start"
                 /\ key \notin DOMAIN r.conversations
                 /\ r.data = data /\ r.db = db
                 /\ q = r

\* the other user's /admin has just been handled by admin_start while the
\* admin's session awaits a value: the other user has no session
C3_Witness ==
    /\ handled = <<OtherUser, "admin_start">>
    /\ OtherKey \notin DOMAIN conversations
    /\ Session(conversations, AdminKey) \in AwaitStates

----------------------------------------------------------------------------
(* C4 *)

\* C4: a step that handles an update of a non-admin changes neither the
\* record, nor the store, nor the admin's session; the record changes only
\* in a step in which an edit handler handles a text of the admin while the
\* admin's session is in an AWAIT_* state; and in every reachable state no
\* update of a non-admin, given to admin_conv_handler or to the application,
\* its sends all succeeding or all failing, changes any of the three.
C4_OnlyAdminEdits ==
    /\ [](\A key \in Keys \ AdminKeys, u \in Updates, net \in {AllSent, NoneSent} :
             \A r \in {ConvHandle(State, key, u, net, TRUE),
                       ProcessUpdate(State, key, u, net, TRUE)} :
                 /\ r.data = data
                 /\ r.db = db
                 /\ Session(r.conversations, AdminKey)
                        = Session(conversations, AdminKey))
    /\ [][/\ (handled'[1] # ADMIN_CHAT_ID)
              => /\ data' = data
                 /\ db' = db
                 /\ Session(conversations', AdminKey)
                        = Session(conversations, AdminKey)
          /\ (data' # data)
              => /\ handled'[1] = ADMIN_CHAT_ID
                 /\ handled'[2] \in EditHandlers
                 /\ Session(conversations, AdminKey) \in AwaitStates]_vars

\* the other user's update has just been handled after the admin edited the
\* record, the admin's session being open
C4_Witness ==
    /\ handled[1] = OtherUser
    /\ edits = 1
    /\ data.promo_link = NewChan
    /\ Session(conversations, AdminKey) = EDIT_CHOOSE_OPTION

----------------------------------------------------------------------------
(* C5 *)

\* C5 (as claimed): the channels of the record have exactly the keys '1'..'5'.
C5_FiveChannels == DOMAIN data.channels = ChannelKeys

----------------------------------------------------------------------------
(* C6 *)

\* C6 (as claimed): the defaults being well-formed, every channel URL of
\* the record is a channel URL and every image URL and link a generic URL.
C6_RecordWellFormed ==
    /\ \A k \in DOMAIN data.channels : IsChannelUrl(data.channels[k])
    /\ \A i \in 1..Len(data.images) : IsGenericUrl(data.images[i])
    /\ IsGenericUrl(data.promo_link)
    /\ IsGenericUrl(data.jaiho_link)
    /\ IsGenericUrl(data.claim_link)

----------------------------------------------------------------------------
(* C7 *)

\* C7: a step in which admin_choose_option, edit_channels, edit_images or
\* edit_texts handles a button callback leaves the record and the store
\* unchanged, and so does button_callback on every callback data in every
\* reachable state, whatever becomes of the sends.
C7_CallbacksWriteNothing ==
    /\ [](\A cb \in CallbackData, net \in Net5 :
             LET r == button_callback(State, cb, net)
             IN r.s.data = data /\ r.s.db = db)
    /\ [][handled'[2] \in CallbackHandlers => data' = data /\ db' = db]_vars

\* edit_channels has just handled 'edit_channel_9', a data no keyboard
\* offers, once the record was edited
C7_Witness ==
    /\ handled = <<ADMIN_CHAT_ID, "edit_channels">>
    /\ Session(conversations, AdminKey) = EDIT_SINGLE_CHANNEL
    /\ user_data[ADMIN_CHAT_ID]["editing_channel"] = "9"
    /\ edits = 1

----------------------------------------------------------------------------
(* C8 *)

\* C8 (as claimed): with the handlers as main() registers them and every
\* send succeeding, a command other than /cancel and /admin sent by the
\* admin while the session is open closes the session.
C8_UnrelatedCommandCloses ==
    \A c \in Commands \ {"cancel", "admin"} :
        Session(conversations, AdminKey) # END
        => Session(ProcessUpdate(State, AdminKey, Command(c), AllSent,
                                 TRUE).conversations, AdminKey) = END

----------------------------------------------------------------------------
(* C9 *)

\* C9 (as claimed): from every open session the admin's /cancel closes the
\* session and leaves the record and the store unchanged.
C9_CancelCloses ==
    \A key \in AdminKeys, net \in Net2 :
        Session(conversations, key) # END
        => LET r == ConvHandle(State, key, Command("cancel"), net, TRUE)
           IN /\ Session(r.conversations, key) = END
              /\ r.data = data /\ r.db = db

----------------------------------------------------------------------------
(* C10 *)

\* C10 (as claimed): the admin's /admin, every send succeeding, leaves the
\* admin's session in MENU whatever its state was.
C10_AdminEntersMenu ==
    Session(ProcessUpdate(State, AdminKey, Command("admin"), AllSent,
                          TRUE).conversations, AdminKey) = EDIT_CHOOSE_OPTION

----------------------------------------------------------------------------
(* C11 *)

\* the session the spec gives a button of the menu
MenuTarget ==
    [d \in {<<"edit", "channels">>, <<"edit", "images">>, <<"edit", "texts">>,
            <<"cancel">>} |->
        CASE d = <<"edit", "channels">> -> EDIT_CHANNELS
          [] d = <<"edit", "images">> -> EDIT_IMAGES
          [] d = <<"edit", "texts">> -> EDIT_TEXTS
          [] d = <<"cancel">> -> END]

\* C11 (as claimed): with the handlers as main() registers them and every
\* send succeeding, a button of the menu pressed by the admin while the
\* session is in MENU moves the session to that button's state: 'edit_channels'
\* to CHOOSE_CHANNEL, 'edit_images' to CHOOSE_IMAGE, 'edit_texts' to
\* CHOOSE_TEXT_FIELD, 'cancel' to CLOSED.
C11_MenuButtons ==
    \A d \in DOMAIN MenuTarget :
        (pc = "polling" /\ Session(conversations, AdminKey) = EDIT_CHOOSE_OPTION)
        => Session(ProcessUpdate(State, AdminKey, Callback(d), AllSent,
                                 TRUE).conversations, AdminKey) = MenuTarget[d]

----------------------------------------------------------------------------
(* C12 *)

\* C12 (as claimed): the 'back' button handled by edit_channels, edit_images
\* or edit_texts in CHOOSE_CHANNEL, CHOOSE_IMAGE or CHOOSE_TEXT_FIELD, every
\* send succeeding, leaves the session in MENU.
C12_BackToMenu ==
    \A key \in AdminKeys :
        Session(conversations, key) \in {EDIT_CHANNELS, EDIT_IMAGES, EDIT_TEXTS}
        => Session(ConvHandle(State, key, Callback(<<"back">>), AllSent,
                              TRUE).conversations, key) = EDIT_CHOOSE_OPTION

----------------------------------------------------------------------------
(* C13 *)

\* C13 (as claimed): when the write of the store fails during the edit of an
\* AWAIT_* state (the sends all succeeding), the admin's first reply is the
\* error report and not the confirmation, and the session keeps the state
\* it had before the update.
C13_WriteFailureReported ==
    \A key \in AdminKeys, t \in Texts :
        LET r == ConvHandle(State, key, Text(t), AllSent, FALSE)
        IN (/\ Session(conversations, key) \in AwaitStates
            /\ r.edits = edits + 1)
           => /\ EditReply(FALSE) = ErrorReport
              /\ Session(r.conversations, key) = Session(conversations, key)

----------------------------------------------------------------------------
(* C14 *)

\* the button of the text keyboard that edits a field of the record
TextFieldButton ==
    [f \in TextKeys |->
        CASE f = "promo_text" -> <<"edit", "promo", "text">>
          [] f = "promo_link" -> <<"edit", "promo", "link">>
          [] f = "jaiho_link" -> <<"edit", "jaiho", "link">>
          [] f = "claim_link" -> <<"edit", "claim", "link">>]

\* the session after the admin chose the button d; the record after the
\* admin's text t in the session ch, the sends of the edit as net, the save
\* as committed
Chosen(key, d) == ConvHandle(State, key, Callback(d), AllSent, TRUE)
Submitted(ch, key, t, net, committed) ==
    ConvHandle(ch, key, Text(t), net, committed).data

\* what an edit is made with: the text, the outcomes of the sends (all
\* made, the menu of admin_start failing, all failing: the handlers write
\* the record before their first send) and of the save
Submissions ==
    Texts \X {AllSent, <<TRUE, FALSE, TRUE, TRUE, TRUE>>, NoneSent} \X BOOLEAN

\* C14: a target chosen from the rendered keyboard (Channel c of '1'..'5',
\* Image k of 1..len(images), one of the four text fields) and a value v
\* then submitted change exactly the targeted field of the record, whatever
\* becomes of the sends and of the save: Channel c sets channels[c], Image k
\* sets images[k-1] (the sequence element k), a text button its field; and
\* after Image 1 the photo of the promo message is v.
C14_ExactlyTheTarget ==
    \A key \in AdminKeys :
        /\ Session(conversations, key) = EDIT_CHANNELS
           => \A c \in ChannelKeys :
                 LET ch == Chosen(key, <<"edit", "channel", c>>)
                 IN \A x \in Submissions :
                       Submitted(ch, key, x[1], x[2], x[3])
                          = [data EXCEPT !.channels[c] = x[1]]
        /\ Session(conversations, key) = EDIT_IMAGES
           => \A k \in 1..Len(data.images) :
                 LET ch == Chosen(key, <<"edit", "image", Digits[k + 1]>>)
                 IN \A x \in Submissions :
                       LET d == Submitted(ch, key, x[1], x[2], x[3])
                       IN /\ d = [data EXCEPT !.images[k] = x[1]]
                          /\ k = 1 => PromoPhoto([data |-> d]) = x[1]
        /\ Session(conversations, key) = EDIT_TEXTS
           => \A f \in TextKeys :
                 LET ch == Chosen(key, TextFieldButton[f])
                 IN \A x \in Submissions :
                       Submitted(ch, key, x[1], x[2], x[3])
                          = [data EXCEPT ![f] = x[1]]

\* edit_single_image has just stored the admin's value as Image 1 and
\* nothing else, and the session is back in MENU
C14_Witness ==
    /\ handled = <<ADMIN_CHAT_ID, "edit_single_image">>
    /\ user_data[ADMIN_CHAT_ID]["editing_image"] = 0
    /\ data = [LoadData(InitDb(WellFormedDefault), WellFormedDefault)
                  EXCEPT !.images[1] = NewChan]
    /\ PromoPhoto(State) = NewChan
    /\ Session(conversations, AdminKey) = EDIT_CHOOSE_OPTION

----------------------------------------------------------------------------
(* C15 *)

\* C15 (as claimed): load_data returns DEFAULT_CONFIG when the store is
\* absent or unreadable (a statement raises sqlite3.Error) and when its
\* tables have no row.
C15_LoadDataDefaults ==
    /\ load_data(db, WellFormedDefault, FALSE) = WellFormedDefault
    /\ (/\ HasTables
        /\ DOMAIN db.channels = {} /\ DOMAIN db.images = {} /\ DOMAIN db.texts = {})
       => load_data(db, WellFormedDefault, TRUE) = WellFormedDefault

----------------------------------------------------------------------------
(* C16 *)

\* C16 (as claimed): whatever rows the store holds, after a save_data(r)
\* that commits load_data returns exactly r, and a second save_data(r)
\* leaves the rows unchanged.
C16_SaveThenLoad ==
    HasTables
    => \A r \in Records :
          LET saved == SaveData(db, r, TRUE)
          IN /\ load_data(saved, WellFormedDefault, TRUE) = r
             /\ SaveData(saved, r, TRUE) = saved

----------------------------------------------------------------------------
(* C17 *)

\* C17: for every content of the store reached from init_db on an absent
\* store followed by save_data calls, save_data(load_data()) leaves the rows
\* of the channels, images and texts tables unchanged.
C17_SaveOfLoadIsNoOp ==
    handled[1] = "init_db"
    => SaveData(db, load_data(db, WellFormedDefault, TRUE), TRUE) = db

\* save_config has just saved the record load_data returned, the store
\* coming from init_db and holding rows a later save_data wrote
C17_Witness ==
    /\ handled = <<"init_db", "save_config">>
    /\ data = LoadData(db, WellFormedDefault)
    /\ db # InitDb(WellFormedDefault)
    /\ Len(data.images) = 2

----------------------------------------------------------------------------
(* C18 *)

\* C18 (as claimed): on a store that init_db and save_data wrote, a
\* load_data whose SELECTs all succeed, run next to a save_data, returns the
\* record of the store as it was before the save or as it is after it,
\* never a mixture of the two.
C18_LoadSeesOneStore ==
    [][(handled[1] = "init_db" /\ load.at = "texts" /\ load'.at = "done")
       => \E store \in load.seen : data' = LoadData(store, WellFormedDefault)]_vars

----------------------------------------------------------------------------
(* C19 *)

\* C19 (as claimed): main() goes on to run_polling, where updates are
\* handled, only when every default channel, image and link URL of the
\* environment is well-formed; the record BotHandlers() loads from the
\* store init_db has just filled holds exactly these defaults.
C19_MalformedDefaultExits ==
    [][(pc = "main" /\ pc' = "polling") => WellFormed(data')]_vars

----------------------------------------------------------------------------
(* C20 *)

\* C20: with BOT_TOKEN or ADMIN_CHAT_ID missing, the process is at the start
\* of main() or has exited: the store is not initialised, no record is
\* loaded, no handler is registered (the process never polls) and no update
\* has been handled.
C20_MissingCredentialExits ==
    (~env.BOT_TOKEN \/ ~env.ADMIN_CHAT_ID)
    => /\ pc \in {"main", "exited"}
       /\ db = NoStore
       /\ data = NoData
       /\ conversations = EmptyDict
       /\ handled = <<"", "">>

\* main() has exited, ADMIN_CHAT_ID being the one credential missing
C20_Witness ==
    /\ pc = "exited"
    /\ env.BOT_TOKEN /\ ~env.ADMIN_CHAT_ID

----------------------------------------------------------------------------
(* C21 *)

\* the admin's edits of the model, as records made from the present one
EditedRecords ==
    {[data EXCEPT !.images[1] = NewChan], [data EXCEPT !.promo_text = Junk],
     [data EXCEPT !.channels = Put(@, "2", NewChan)]}

\* C21: a save_data that fails after any of its statements leaves the rows
\* of the store as they were before the call, which is what the failed save
\* of an edit handler does; a step that changes the record without
\* changing the store is an edit handler's, the record keeping the new
\* value; and the store changes only in a step of an edit handler, to the
\* rows of the whole record as it then is: the unsaved value is neither
\* rolled back nor saved by any other step.
C21_FailedSaveKeepsStore ==
    /\ [](\A d \in EditedRecords, k \in FailurePoints :
            /\ save_data_failing(db, d, k) = db
            /\ SaveData(db, d, FALSE) = save_data_failing(db, d, k))
    /\ [][/\ (handled'[2] \notin EditHandlers) => (data' = data /\ db' = db)
          /\ (db' # db) => (db' = SaveRows(db, data'))]_vars

\* a later update of another user has been handled while the admin's new
\* channel 2, whose save failed, is in the record and not in the store
C21_Witness ==
    /\ handled = <<OtherUser, "admin_start">>
    /\ data.channels["2"] = NewChan
    /\ db.channels["2"] = DefChan
    /\ LoadData(db, WellFormedDefault) # data

----------------------------------------------------------------------------
(* C22 *)

\* the stores BotHandlers() may find: none, or tables with rows
FoundStores ==
    {NoStore} \cup [channels : StoreChannels, images : StoreImages,
                    texts : StoreTexts]

\* C22: before the first update, whatever store BotHandlers() finds, the
\* record load_data returns after init_db (or its DEFAULT_CONFIG, a read
\* failing) has at least one image; the record has at least one image in
\* every reachable state; and
\* no step, of an edit handler or of a callback handler, changes the number
\* of images of the record.
C22_ImagesLengthKept ==
    /\ [](/\ Len(data.images) >= 1
          /\ (handled = <<"", "">>)
             => \A store \in FoundStores, readable \in BOOLEAN :
                   Len(load_data(InitDbOn(store, WellFormedDefault),
                                 WellFormedDefault, readable).images) >= 1)
    /\ [][Len(data'.images) = Len(data.images)]_vars

\* edit_single_image has stored the admin's value with the pending index
\* -1 that 'edit_image_0' leaves: the last image is replaced and there are
\* as many images as before
C22_Witness ==
    /\ handled = <<ADMIN_CHAT_ID, "edit_single_image">>
    /\ user_data[ADMIN_CHAT_ID]["editing_image"] = -1
    /\ data.images[NumImages] = NewChan
    /\ Len(data.images) = NumImages

----------------------------------------------------------------------------
(* C23 *)

\* the AWAIT_* states of the four text fields
TextAwaitStates == AwaitStates \ {EDIT_SINGLE_CHANNEL, EDIT_SINGLE_IMAGE}

\* the transitions of the wizard, as pairs <<from, to>>, END being CLOSED
\* and EDIT_CHOOSE_OPTION being MENU; /admin opens MENU from CLOSED
WizardTransitions ==
    {<<END, EDIT_CHOOSE_OPTION>>}
    \cup ({EDIT_CHOOSE_OPTION} \X (ChoosingStates \cup {END}))
    \cup ({EDIT_CHANNELS} \X {EDIT_SINGLE_CHANNEL, EDIT_CHOOSE_OPTION, END})
    \cup ({EDIT_IMAGES} \X {EDIT_SINGLE_IMAGE, EDIT_CHOOSE_OPTION, END})
    \cup ({EDIT_TEXTS} \X (TextAwaitStates \cup {EDIT_CHOOSE_OPTION, END}))
    \cup (AwaitStates \X {EDIT_CHOOSE_OPTION, END})

\* C23: a step that changes the state of the admin's session takes one of
\* the transitions of the wizard, and no step takes the session from MENU
\* or from CLOSED to an AWAIT_* state.
C23_WizardTransitions ==
    [][LET from == Session(conversations, AdminKey)
           to == Session(conversations', AdminKey)
       IN /\ (from # to) => (<<from, to>> \in WizardTransitions)
          /\ (from \in {EDIT_CHOOSE_OPTION, END}) => (to \notin AwaitStates)]_vars

\* edit_texts has just taken the admin's session from CHOOSE_TEXT_FIELD to
\* the state that awaits the promo link
C23_Witness ==
    /\ handled = <<ADMIN_CHAT_ID, "edit_texts">>
    /\ Session(conversations, AdminKey) = EDIT_PROMO_LINK

----------------------------------------------------------------------------
(* C24 *)

\* the pending target of user under name, "" when none was ever set
Pending(ud, user, name) ==
    IF name \in DOMAIN ud[user] THEN ud[user][name] ELSE ""

\* C24 (as claimed): in every session of the admin, the edit_channels
\* (edit_images) step that takes the session to the state awaiting a channel
\* (image) value sets the pending target to the slot of its button, and
\* while the session stays in that state the pending target is unchanged: it
\* is the slot the session selected last, whatever else the admin does.
C24_PendingTargetOfSession ==
    /\ [](\A key \in ChatKeys :
            /\ Session(conversations, key) = EDIT_CHANNELS
               => \A c \in ChannelKeys :
                     LET r == ConvHandle(State, key, Callback(<<"edit", "channel", c>>),
                                         AllSent, TRUE)
                     IN /\ Session(r.conversations, key) = EDIT_SINGLE_CHANNEL
                        /\ Pending(r.user_data, key[2], "editing_channel") = c
            /\ Session(conversations, key) = EDIT_IMAGES
               => \A k \in 1..Len(data.images) :
                     LET r == ConvHandle(State, key,
                                         Callback(<<"edit", "image", Digits[k + 1]>>),
                                         AllSent, TRUE)
                     IN /\ Session(r.conversations, key) = EDIT_SINGLE_IMAGE
                        /\ Pending(r.user_data, key[2], "editing_image") = k - 1)
    /\ [][\A key \in ChatKeys :
            /\ (/\ Session(conversations, key) = EDIT_SINGLE_CHANNEL
                /\ Session(conversations', key) = EDIT_SINGLE_CHANNEL)
               => Pending(user_data', key[2], "editing_channel")
                     = Pending(user_data, key[2], "editing_channel")
            /\ (/\ Session(conversations, key) = EDIT_SINGLE_IMAGE
                /\ Session(conversations', key) = EDIT_SINGLE_IMAGE)
               => Pending(user_data', key[2], "editing_image")
                     = Pending(user_data, key[2], "editing_image")]_vars

----------------------------------------------------------------------------
(* C25 *)

\* C25 (as claimed): whenever the admin's session awaits an image value,
\* the pending image index is set and is one of 0..len(images)-1.
C25_PendingImageInRange ==
    Session(conversations, AdminKey) = EDIT_SINGLE_IMAGE
    => /\ "editing_image" \in DOMAIN user_data[ADMIN_CHAT_ID]
       /\ user_data[ADMIN_CHAT_ID]["editing_image"] \in 0..(Len(data.images) - 1)

----------------------------------------------------------------------------
(* C26 *)

\* the outcomes of the sends of an edit handler in which the confirmation
\* or the menu of admin_start fails
FailedSends == {net \in Net4 : ~net[1] \/ ~net[2]}

\* C26 (as claimed): in every reachable state in which the admin's session
\* awaits a value, a text whose handler assigns the field and saves it, and
\* then fails to send the confirmation or the menu, leaves the session
\* CLOSED, the new value in the record and the record in the store.
C26_SendFailureCloses ==
    Session(conversations, AdminKey) \in AwaitStates
    => \A t \in Texts, net \in FailedSends :
          LET r == ConvHandle(State, AdminKey, Text(t), net, TRUE)
          IN (r.edits = edits + 1)
             => /\ Session(r.conversations, AdminKey) = END
                /\ r.db = SaveRows(db, r.data)
                /\ LoadData(r.db, WellFormedDefault) = r.data

====
